---- MODULE Spec2Model ----
(***************************************************************************)
(* Model of submissions.go: the batch grader that stages, compiles and     *)
(* runs every submission against the test inputs under a timeout, and      *)
(* writes one report per submission.                                       *)
(*                                                                         *)
(* Strings are sequences of one-character strings, so that Split, Join,    *)
(* TrimSuffix and sort.Strings are computed as the code computes them.     *)
(***************************************************************************)
EXTENDS Integers, Sequences, FiniteSets, TLC

\* ------------------------------------------------------------------ bounds
NumSubs == 2        \* submissions found by the walk of one batch
MaxTests == 2       \* at most this many .in files and this many .out files

\* --------------------------------------------------------------- constants
VerboseNumLines == 50

STATUS_OK == 0
STATUS_ERR == 1
STATUS_TIMEOUT == 2

\* ----------------------------------------------------------------- strings
\* the characters used by the file names of the model, in byte order
Alphabet == <<"-", ".", "/", "0", "1", "2", "C", "_", "a", "b", "c", "d",
              "i", "j", "k", "n", "o", "s", "t", "u", "v">>

CharOrd(c) == CHOOSE i \in 1..Len(Alphabet) : Alphabet[i] = c

\* a < b in the byte-wise lexicographic order used by sort.Strings
RECURSIVE StrLess(_, _)
StrLess(a, b) ==
    IF b = <<>> THEN FALSE
    ELSE IF a = <<>> THEN TRUE
    ELSE IF Head(a) = Head(b) THEN StrLess(Tail(a), Tail(b))
    ELSE CharOrd(Head(a)) < CharOrd(Head(b))

\* strings.Split(s, sep) for a one-character separator
RECURSIVE Split(_, _)
Split(s, sep) ==
    IF \A i \in 1..Len(s) : s[i] # sep THEN <<s>>
    ELSE LET i == CHOOSE j \in 1..Len(s) :
                      s[j] = sep /\ \A h \in 1..(j - 1) : s[h] # sep
         IN <<SubSeq(s, 1, i - 1)>> \o Split(SubSeq(s, i + 1, Len(s)), sep)

\* strings.Join(parts, "")
RECURSIVE Join(_)
Join(parts) == IF parts = <<>> THEN <<>> ELSE Head(parts) \o Join(Tail(parts))

\* strings.TrimSuffix(s, suffix)
TrimSuffix(s, suffix) ==
    IF Len(s) >= Len(suffix)
       /\ SubSeq(s, Len(s) - Len(suffix) + 1, Len(s)) = suffix
    THEN SubSeq(s, 1, Len(s) - Len(suffix))
    ELSE s

\* insertion of one string into a sorted sequence of strings
RECURSIVE SortedInsert(_, _)
SortedInsert(sorted, x) ==
    IF sorted = <<>> THEN <<x>>
    ELSE IF StrLess(x, Head(sorted)) THEN <<x>> \o sorted
    ELSE <<Head(sorted)>> \o SortedInsert(Tail(sorted), x)

\* a list left in the order of the walk
SortStringsKeepsOrder(list) == list

\* sort.Strings(list)
RECURSIVE SortStrings(_)
SortStrings(list) ==
    IF list = <<>> THEN <<>>
    ELSE SortedInsert(SortStrings(Tail(list)), Head(list))

\* a is before b in the order filepath.Walk visits paths: the names of each
\* directory are visited in sorted order, a directory before what follows it
RECURSIVE WalkLessParts(_, _)
WalkLessParts(a, b) ==
    IF b = <<>> THEN FALSE
    ELSE IF a = <<>> THEN TRUE
    ELSE IF Head(a) = Head(b) THEN WalkLessParts(Tail(a), Tail(b))
    ELSE StrLess(Head(a), Head(b))

WalkLess(a, b) == WalkLessParts(Split(a, "/"), Split(b, "/"))

\* the files of a directory in the order filepath.Walk visits them
RECURSIVE WalkOrder(_)
WalkOrder(files) ==
    IF files = {} THEN <<>>
    ELSE LET m == CHOOSE x \in files : \A y \in files \ {x} : WalkLess(x, y)
         IN <<m>> \o WalkOrder(files \ {m})

\* --------------------------------------------------------- the file system
JavaExt == <<".", "j", "a", "v", "a">>
InExt == <<"i", "n">>
OutExt == <<"o", "u", "t">>
Stems == <<"a", "b", "c", "d">>

\* the path of a test file: testsDir/<stem>.<ext>, or testsDir/<stem>
TestPath(i, ext) ==
    <<"t", "/", Stems[i]>> \o (IF ext = <<>> THEN <<>> ELSE <<".">> \o ext)

\* the contents the test-cases directory can have: n inputs, m expected
\* outputs, and possibly one file without extension delimiter
TestDir(n, m, nodot) ==
    {TestPath(i, InExt) : i \in 1..n} \cup {TestPath(i, OutExt) : i \in 1..m}
        \cup (IF nodot THEN {TestPath(MaxTests + 1, <<>>)} ELSE {})

\* a test-cases directory with a subdirectory: the walk visits t/a/b.in
\* before t/a-c.in, which is the smaller string
NestedTestDir ==
    { <<"t", "/", "a", "/", "b", ".">> \o InExt,
      <<"t", "/", "a", "/", "b", ".">> \o OutExt,
      <<"t", "/", "a", "-", "c", ".">> \o InExt,
      <<"t", "/", "a", "-", "c", ".">> \o OutExt }

\* as many expected outputs as inputs, or, in directories of up to three
\* files, one less or one more
TestDirs ==
    { TestDir(q[1], q[2], FALSE) :
        q \in { c \in (0..MaxTests) \X (0..MaxTests) :
                  \/ c[1] = c[2]
                  \/ c[2] - c[1] \in {-1, 1} /\ c[1] + c[2] <= 3 } }
        \cup { TestDir(n, n, TRUE) : n \in 0..MaxTests }
        \cup { NestedTestDir }

\* raw submission files: <folder>/<base>; two bases derive the same class
\* name, and the same base in two folders derives the same workspace name
SubBases == { <<"j", "_", "1", "_", "0", "_", "C">> \o JavaExt,
              <<"k", "_", "1", "_", "0", "_", "C", "-", "2">> \o JavaExt }

SubPaths == { <<f, "/">> \o b : f \in {"a", "b"}, b \in SubBases }
                \ { <<"b", "/", "k", "_", "1", "_", "0", "_", "C", "-", "2">> \o JavaExt }

\* filepath.Base(path)
Base(path) == LET parts == Split(path, "/") IN parts[Len(parts)]

\* the batches: NumSubs submission files in walk order
Batches == { WalkOrder(S) : S \in { T \in SUBSET SubPaths :
                 Cardinality(T) = IF NumSubs < 3 THEN NumSubs ELSE 3 } }

\* the workspace name makeTestDir derives from a submission path
MakeTestDirDir(path) == TrimSuffix(Base(path), JavaExt)

\* a class name taken from the third token on
MakeTestDirClassFromThird(path) ==
    LET raw == Split(TrimSuffix(Base(path), JavaExt), "_")
    IN Split(Join(SubSeq(raw, 3, Len(raw))), "-")[1]

\* the class name makeTestDir derives from a submission path
MakeTestDirClass(path) ==
    LET raw == Split(TrimSuffix(Base(path), JavaExt), "_")
    IN Split(Join(SubSeq(raw, 4, Len(raw))), "-")[1]

\* os.Mkdir(dir) followed by copy(path, dir/class.java): the staged file
\* replaces a file of the same name in a directory that already exists
StageFile(files, dir, class, owner) ==
    {f \in files : ~(f.dir = dir /\ f.file = class)}
        \cup {[dir |-> dir, file |-> class, owner |-> owner]}

\* a removal that leaves the directory in place
RemoveAllKeeps(files, dir) == files

\* os.RemoveAll(dir)
RemoveAll(files, dir) == {f \in files : f.dir # dir}

\* ------------------------------------------------------------------- state
VARIABLES
    pc,            \* position of the main goroutine in run / runSubmission / runExec
    testFiles,     \* the files of the test-cases directory
    testsListErr,  \* the walk of the test-cases directory reports an error
    batch,         \* the submission files, in the order the walk visits them
    in,            \* run: in, the sorted input files
    out,           \* run: out, the sorted expected-output files
    next,          \* index in batch of the submission the walk is at
    submissions,   \* run: submissions, the submissions returned so far
    sub,           \* runSubmission: sub
    k,             \* runSubmission: index of the test case of the loop
    files,         \* the staged files that exist in workspaces
    proc,          \* the runtime process of each run of sub
    waiter,        \* the goroutine "done <- runCmd.Wait()" of each run of sub
    timer,         \* the channel of time.After of the current run
    exitErr,       \* the exit of the process of the current run was not clean
    first,         \* which of the raced events of the current run happened first
    launches,      \* number of calls of runCmd.Start of each run of sub
    reports,       \* the files of the reports directory
    rep,           \* index in submissions of the report being written
    contents,      \* the text of the test files that do not hold their path
    verbose        \* the flag -v

vars == <<pc, testFiles, testsListErr, batch, in, out, next, submissions, sub,
          k, files, proc, waiter, timer, exitErr, first, launches, reports, rep,
          contents, verbose>>

\* the runs of one submission, one per test case; proc, waiter and launches
\* follow the runs of the submission runSubmission is processing
Runs == 1..MaxTests

NoProcs == [r \in Runs |-> "none"]

NoWaiters == [r \in Runs |-> "none"]

NoLaunches == [r \in Runs |-> 0]

\* a *Result that is nil
NilResult == [Status |-> -1, out |-> <<>>, err |-> <<>>]

NoSub == [Name |-> <<>>, CompileResult |-> NilResult, RunResults |-> <<>>]

\* a process that has been started and has not terminated
Live == {"running", "killed"}

Init ==
    /\ pc = "getTestNames"
    /\ testsListErr \in BOOLEAN
    /\ testFiles \in (IF testsListErr THEN {{}} ELSE TestDirs)
    /\ batch \in Batches
    /\ in = <<>>
    /\ out = <<>>
    /\ next = 1
    /\ submissions = <<>>
    /\ sub = NoSub
    /\ k = 1
    /\ files = {}
    /\ proc = NoProcs
    /\ waiter = NoWaiters
    /\ timer = "unarmed"
    /\ exitErr = FALSE
    /\ first = "none"
    /\ launches = NoLaunches
    /\ reports = {}
    /\ rep = 1
    /\ contents = <<>>
    /\ verbose = FALSE

\* ------------------------------------------------------------ getTestNames
\* strings.Split(path, ".")[1] faults on a path without "."
HasExt(path) == Len(Split(path, ".")) >= 2

TestType(path) == Split(path, ".")[2]

RECURSIVE SelectPaths(_, _)
SelectPaths(list, isIn) ==
    IF list = <<>> THEN <<>>
    ELSE (IF (TestType(Head(list)) = InExt) = isIn THEN <<Head(list)>> ELSE <<>>)
             \o SelectPaths(Tail(list), isIn)

\* getTestNames: the error the walk returns is dropped, and both lists are
\* returned as filled so far
GetTestNames ==
    /\ pc = "getTestNames"
    /\ IF testsListErr
       THEN /\ in' = <<>>
            /\ out' = <<>>
            /\ pc' = "walk"
       ELSE IF \E p \in testFiles : ~HasExt(p)
       THEN /\ pc' = "panic"
            /\ UNCHANGED <<in, out>>
       ELSE /\ in' = SortStrings(SelectPaths(WalkOrder(testFiles), TRUE))
            /\ out' = SortStrings(SelectPaths(WalkOrder(testFiles), FALSE))
            /\ pc' = "walk"
    /\ UNCHANGED <<testFiles, testsListErr, batch, next, submissions, sub, k,
                   files, proc, waiter, timer, exitErr, first, launches,
                   reports, rep>>
    /\ UNCHANGED <<contents, verbose>>

\* --------------------------------------------------------------------- run
\* the walk function of run is called with an error: run returns it
WalkError ==
    /\ pc = "walk"
    /\ pc' = "aborted"
    /\ UNCHANGED <<testFiles, testsListErr, batch, in, out, next, submissions,
                   sub, k, files, proc, waiter, timer, exitErr, first, launches,
                   reports, rep>>
    /\ UNCHANGED <<contents, verbose>>

\* the walk reaches the next submission file: runSubmission stages it
\* (makeTestDir) and creates sub
StageSubmission ==
    /\ pc = "walk"
    /\ next <= Len(batch)
    /\ LET dir == MakeTestDirDir(batch[next])
           class == MakeTestDirClass(batch[next])
       IN /\ files' = StageFile(files, dir, class, next)
          /\ sub' = [NoSub EXCEPT !.Name = dir]
    /\ pc' = "compile"
    /\ UNCHANGED <<testFiles, testsListErr, batch, in, out, next, submissions,
                   k, proc, waiter, timer, exitErr, first, launches, reports,
                   rep>>
    /\ UNCHANGED <<contents, verbose>>

\* the walk is over: the reports directory is removed and created again
StartReports ==
    /\ pc = "walk"
    /\ next > Len(batch)
    /\ reports' = {}
    /\ rep' = 1
    /\ pc' = "report"
    /\ UNCHANGED <<testFiles, testsListErr, batch, in, out, next, submissions,
                   sub, k, files, proc, waiter, timer, exitErr, first, launches>>
    /\ UNCHANGED <<contents, verbose>>

\* ----------------------------------------------------------- runSubmission
\* a test of the compile status against the wrong constant
CompileFailedWrongStatus(res) == res.Status = STATUS_TIMEOUT

\* the test of the compile status that skips the run phase
CompileFailed(res) == res.Status = STATUS_ERR

\* runCompile, and the return of runSubmission after a compile error.  The
\* error of this os.RemoveAll is dropped by the code: the workspace holds only
\* the staged file and what javac wrote, and the removal is taken to succeed
Compile ==
    /\ pc = "compile"
    /\ \E st \in {STATUS_OK, STATUS_ERR} :
         LET s2 == [sub EXCEPT !.CompileResult =
                                 [Status |-> st, out |-> <<>>, err |-> <<>>]]
         IN IF CompileFailed(s2.CompileResult)
            THEN /\ files' = RemoveAll(files, sub.Name)
                 /\ submissions' = Append(submissions, s2)
                 /\ sub' = NoSub
                 /\ next' = next + 1
                 /\ k' = 1
                 /\ pc' = "walk"
            ELSE /\ sub' = s2
                 /\ k' = 1
                 /\ pc' = "loop"
                 /\ UNCHANGED <<files, submissions, next>>
    /\ UNCHANGED <<testFiles, testsListErr, batch, in, out, proc, waiter,
                   timer, exitErr, first, launches, reports, rep>>
    /\ UNCHANGED <<contents, verbose>>

\* a loop that stops one element early
LoopHasNextShort(i, inFiles) == i < Len(inFiles)

\* the range loop over inFiles has a next element
LoopHasNext(i, inFiles) == i <= Len(inFiles)

\* after the loop: os.RemoveAll(dir), whose error is returned (the programs
\* that ran may have left the workspace in a state that cannot be removed); when
\* runSubmission returns sub, the runs of the next submission are followed
Cleanup ==
    /\ pc = "loop"
    /\ ~LoopHasNext(k, in)
    /\ \E ok \in BOOLEAN :
         IF ok
         THEN /\ files' = RemoveAll(files, sub.Name)
              /\ submissions' = Append(submissions, sub)
              /\ sub' = NoSub
              /\ next' = next + 1
              /\ k' = 1
              /\ proc' = NoProcs
              /\ waiter' = NoWaiters
              /\ launches' = NoLaunches
              /\ pc' = "walk"
         ELSE /\ pc' = "aborted"
              /\ UNCHANGED <<files, submissions, sub, next, k, proc, waiter,
                             launches>>
    /\ UNCHANGED <<testFiles, testsListErr, batch, in, out, timer, exitErr,
                   first, reports, rep>>
    /\ UNCHANGED <<contents, verbose>>

\* ----------------------------------------------------------------- runExec
\* the loop calls runExec: os.Open of the input file, whose error is returned
\* by runExec, by runSubmission and by run; runCmd.Start(), whose error is
\* dropped (after a failed start runCmd.Process is nil);
\* go func() { done <- runCmd.Wait() }(); timeout := time.After(...).
\* These statements are one step: nothing can receive from done or from the
\* timer before the select, so an exit of the process between them leads to
\* the state an exit right after them leads to
Launch ==
    /\ pc = "loop"
    /\ LoopHasNext(k, in)
    /\ \E opened \in BOOLEAN :
         IF ~opened
         THEN /\ pc' = "aborted"
              /\ UNCHANGED <<proc, waiter, timer, launches, exitErr, first>>
         ELSE /\ \E started \in BOOLEAN :
                   proc' = [proc EXCEPT ![k] =
                               IF started THEN "running" ELSE "nostart"]
              /\ launches' = [launches EXCEPT ![k] = @ + 1]
              /\ waiter' = [waiter EXCEPT ![k] = "wait"]
              /\ timer' = "armed"
              /\ exitErr' = FALSE
              /\ first' = "none"
              /\ pc' = "select"
    /\ UNCHANGED <<testFiles, testsListErr, batch, in, out, next, submissions,
                   sub, k, files, reports, rep>>
    /\ UNCHANGED <<contents, verbose>>

\* the deadline elapses: the runtime sends on the channel of time.After
TimerFire ==
    /\ timer = "armed"
    /\ timer' = "fired"
    /\ first' = IF first = "none" /\ proc[k] = "running" THEN "deadline"
                ELSE first
    /\ UNCHANGED <<pc, testFiles, testsListErr, batch, in, out, next,
                   submissions, sub, k, files, proc, waiter, exitErr, launches,
                   reports, rep>>
    /\ UNCHANGED <<contents, verbose>>

\* the runtime process exits by itself, cleanly or not
ProcExit(r) ==
    /\ proc[r] = "running"
    /\ proc' = [proc EXCEPT ![r] = "terminated"]
    /\ exitErr' \in BOOLEAN
    /\ first' = IF first = "none" THEN "exit" ELSE first
    /\ UNCHANGED <<pc, testFiles, testsListErr, batch, in, out, next,
                   submissions, sub, k, files, waiter, timer, launches,
                   reports, rep>>
    /\ UNCHANGED <<contents, verbose>>

\* a process that was sent the kill signal terminates
ProcDie(r) ==
    /\ proc[r] = "killed"
    /\ proc' = [proc EXCEPT ![r] = "terminated"]
    /\ UNCHANGED <<pc, testFiles, testsListErr, batch, in, out, next,
                   submissions, sub, k, files, waiter, timer, exitErr, first,
                   launches, reports, rep>>
    /\ UNCHANGED <<contents, verbose>>

\* runCmd.Wait() returns in the waiting goroutine, which then blocks on the
\* send on the unbuffered channel done
WaitReturn(r) ==
    /\ waiter[r] = "wait"
    /\ proc[r] \in {"nostart", "terminated"}
    /\ waiter' = [waiter EXCEPT ![r] = "send"]
    /\ UNCHANGED <<pc, testFiles, testsListErr, batch, in, out, next,
                   submissions, sub, k, files, proc, timer, exitErr, first,
                   launches, reports, rep>>
    /\ UNCHANGED <<contents, verbose>>

\* the error runCmd.Wait() returns: nil only after a clean exit
WaitErr(p, e) == p = "nostart" \/ e

\* runCmd.Process.Kill(): the signal is sent to a running process and the
\* call does not wait for its termination; on a finished process it fails
Kill(p) == IF p = "running" THEN "killed" ELSE p

\* the status runExec stores in the Result after the select
FinalStatus(status, err) ==
    IF status # STATUS_TIMEOUT
    THEN (IF err THEN STATUS_ERR ELSE STATUS_OK)
    ELSE STATUS_TIMEOUT

\* a loop that gives up the remaining test cases after a failed one
NextCaseAbort(i, status) == IF status = STATUS_OK THEN i + 1 ELSE MaxTests + 1

\* the index of the test case the loop goes on with after a Result
NextCase(i, status) == i + 1

\* sub.RunResults = append(sub.RunResults, res)
AppendResult(results, res) == Append(results, res)

\* runExec stores the Result and returns it; runSubmission appends it.  The
\* field out is the captured output, which is the output of the process on
\* the input file it was given: the programs write their input back, and
\* the input files hold their own path as text
Store(status, err) ==
    /\ LET final == FinalStatus(status, err)
       IN /\ sub' = [sub EXCEPT !.RunResults =
                        AppendResult(@, [Status |-> final, out |-> in[k],
                                         err |-> <<>>])]
          /\ k' = NextCase(k, final)
    /\ timer' = "unarmed"
    /\ exitErr' = FALSE
    /\ first' = "none"
    /\ pc' = "loop"

\* select, case <-timeout: the process is killed, the status is TIMEOUT;
\* runCmd.Process is nil when the start failed
SelectTimeout ==
    /\ pc = "select"
    /\ timer = "fired"
    /\ IF proc[k] = "nostart"
       THEN /\ pc' = "panic"
            /\ UNCHANGED <<proc, sub, k, timer, exitErr, first>>
       ELSE /\ proc' = [proc EXCEPT ![k] = Kill(@)]
            /\ Store(STATUS_TIMEOUT, FALSE)
    /\ UNCHANGED <<testFiles, testsListErr, batch, in, out, next, submissions,
                   files, waiter, launches, reports, rep>>
    /\ UNCHANGED <<contents, verbose>>

\* select, case err = <-done: the send of the waiting goroutine completes
SelectDone ==
    /\ pc = "select"
    /\ waiter[k] = "send"
    /\ waiter' = [waiter EXCEPT ![k] = "done"]
    /\ Store(STATUS_OK, WaitErr(proc[k], exitErr))
    /\ UNCHANGED <<testFiles, testsListErr, batch, in, out, next, submissions,
                   files, proc, launches, reports, rep>>
    /\ UNCHANGED <<contents, verbose>>

\* ------------------------------------------------------------- writeReport
\* strings.SplitAfterN(s, sep, n) for n > 0: at most n pieces, each piece but
\* the last one ends with sep, the last one is the rest, not split
RECURSIVE SplitAfterN(_, _, _)
SplitAfterN(s, sep, n) ==
    IF n = 1 \/ ~\E i \in 1..Len(s) : s[i] = sep
    THEN <<s>>
    ELSE LET i == CHOOSE j \in 1..Len(s) :
                      s[j] = sep /\ \A h \in 1..(j - 1) : s[h] # sep
         IN <<SubSeq(s, 1, i)>> \o SplitAfterN(SubSeq(s, i + 1, Len(s)), sep, n - 1)

\* the line truncLines appends, as one element of a text
TruncMarker == <<"=========OUTPUT TRUNCATED. USE -v FOR FULL LOG PRINT=========">>

truncLines(output, numLines) ==
    LET ret == SplitAfterN(output, "\n", numLines)
    IN IF Len(ret) >= numLines
       THEN Join(SubSeq(ret, 1, Len(ret) - 1)) \o TruncMarker
       ELSE Join(ret)

\* a log body as writeReport writes it: cut unless the flag -v is given
LogBody(text, v) == IF ~v THEN truncLines(text, VerboseNumLines) ELSE text

\* the compile error log is written as it is, with and without the flag
CompileErrLog(text, v) == text

IsNotCR(c) == c # "\r"

\* strings.ReplaceAll(string(outFile), "\r", "")
StripCR(text) == SelectSeq(text, IsNotCR)

\* the length of the longest common prefix of a and b
CommonPrefixLen(a, b) ==
    LET m == IF Len(a) <= Len(b) THEN Len(a) ELSE Len(b)
    IN CHOOSE n \in 0..m :
          /\ \A i \in 1..n : a[i] = b[i]
          /\ n = m \/ a[n + 1] # b[n + 1]

\* the length of the longest common suffix of a and b
CommonSuffixLen(a, b) ==
    LET m == IF Len(a) <= Len(b) THEN Len(a) ELSE Len(b)
    IN CHOOSE n \in 0..m :
          /\ \A i \in 0..(n - 1) : a[Len(a) - i] = b[Len(b) - i]
          /\ n = m \/ a[Len(a) - n] # b[Len(b) - n]

\* the colour sequences DiffPrettyText puts around a deletion and an insertion
DelOn == <<"ESC[31m">>
InsOn == <<"ESC[32m">>
ColourOff == <<"ESC[0m">>

\* a rendering that colours the whole of text2 as an insertion
DiffPrettyTextAllInserted(text1, text2) == InsOn \o text2 \o ColourOff

\* dmp.DiffPrettyText(dmp.DiffMain(text1, text2, false)): equal parts are
\* written as they are, what only text1 has as a deletion and what only text2
\* has as an insertion.  DiffMain takes off the common prefix and the common
\* suffix, and the middle is rendered here as one deletion and one insertion
DiffPrettyText(text1, text2) ==
    LET p == CommonPrefixLen(text1, text2)
        r1 == SubSeq(text1, p + 1, Len(text1))
        r2 == SubSeq(text2, p + 1, Len(text2))
        q == CommonSuffixLen(r1, r2)
        del == SubSeq(r1, 1, Len(r1) - q)
        ins == SubSeq(r2, 1, Len(r2) - q)
    IN SubSeq(text1, 1, p)
         \o (IF del # <<>> THEN DelOn \o del \o ColourOff ELSE <<>>)
         \o (IF ins # <<>> THEN InsOn \o ins \o ColourOff ELSE <<>>)
         \o SubSeq(r1, Len(r1) - q + 1, Len(r1))

\* a test of the diff that never finds a mismatch
MismatchNever(diff, outText) == FALSE

\* the test "diff != outText" that classifies a test case as a mismatch
Mismatch(diff, outText) == diff # outText

\* os.ReadFile(path): a file that cont does not list holds its path as text
FileText(cont, path) == IF path \in DOMAIN cont THEN cont[path] ELSE path

\* the section of the report for the Result at index i: the expected output
\* is read from outs[i]; an ERROR Result gets its error log and nothing else
Section(outs, res, i, cont, v) ==
    LET outText == StripCR(FileText(cont, outs[i]))
        diff == DiffPrettyText(outText, res.out)
    IN IF res.Status = STATUS_ERR
       THEN [case |-> outs[i], status |-> res.Status, class |-> "error",
             logs |-> <<[kind |-> "Error Log", text |-> LogBody(res.err, v)]>>]
       ELSE IF Mismatch(diff, outText)
       THEN [case |-> outs[i], status |-> res.Status, class |-> "diff",
             logs |-> <<[kind |-> "Diff Log", text |-> LogBody(diff, v)],
                        [kind |-> "Out Log", text |-> LogBody(res.out, v)]>>]
       ELSE [case |-> outs[i], status |-> res.Status, class |-> "No Diff!",
             logs |-> <<>>]

\* an index that never leaves the range
OutOfRangeNever(results, outs) == FALSE

\* outs[i] is out of range for the index of some Result
OutOfRange(results, outs) == Len(results) > Len(outs)

CountStatus(results, st) ==
    Cardinality({i \in DOMAIN results : results[i].Status = st})

TxtExt == <<".", "t", "x", "t">>

\* the file writeReport writes for submission s.  stage tells how far it got:
\* "compile" when it returned after a compile error, "faulted" when outs[i]
\* was out of range, "full" when the line of the mismatch count was written
ReportFile(outs, s, cont, v) ==
    LET failed == s.CompileResult.Status = STATUS_ERR
        n == IF Len(s.RunResults) <= Len(outs) THEN Len(s.RunResults)
             ELSE Len(outs)
        sections == [i \in 1..n |-> Section(outs, s.RunResults[i], i, cont, v)]
    IN [name |-> s.Name \o TxtExt,
        header |-> Split(s.Name, "_")[1],
        compile |-> s.CompileResult.Status,
        compileLogs |->
            (IF failed
             THEN <<[kind |-> "Error Log",
                     text |-> CompileErrLog(s.CompileResult.err, v)]>>
             ELSE <<>>)
            \o (IF Len(s.CompileResult.out) # 0
                THEN <<[kind |-> "Out Log",
                        text |-> LogBody(s.CompileResult.out, v)]>>
                ELSE <<>>),
        numTimeout |-> CountStatus(s.RunResults, STATUS_TIMEOUT),
        numErr |-> CountStatus(s.RunResults, STATUS_ERR),
        numOk |-> CountStatus(s.RunResults, STATUS_OK),
        sections |-> IF failed THEN <<>> ELSE sections,
        diffCnt |-> IF failed THEN 0
                    ELSE Cardinality({i \in 1..n : sections[i].class = "diff"}),
        stage |-> IF failed THEN "compile"
                  ELSE IF OutOfRange(s.RunResults, outs) THEN "faulted"
                  ELSE "full"]

\* os.Create: a file of that name that exists already is replaced
CreateFile(dir, f) == {g \in dir : g.name # f.name} \cup {f}

\* writeReport of one submission: os.Create of <Name>.txt, the compile part,
\* then one section per Result, which indexes outs at the position of the
\* Result, and the mismatch count
WriteReport ==
    /\ pc = "report"
    /\ rep <= Len(submissions)
    /\ LET f == ReportFile(out, submissions[rep], contents, verbose)
       IN /\ reports' = CreateFile(reports, f)
          /\ IF f.stage = "faulted"
             THEN /\ pc' = "panic"
                  /\ UNCHANGED rep
             ELSE /\ rep' = rep + 1
                  /\ UNCHANGED pc
    /\ UNCHANGED <<testFiles, testsListErr, batch, in, out, next, submissions,
                   sub, k, files, proc, waiter, timer, exitErr, first, launches>>
    /\ UNCHANGED <<contents, verbose>>

\* all reports are written: run returns nil
Finish ==
    /\ pc = "report"
    /\ rep > Len(submissions)
    /\ pc' = "done"
    /\ UNCHANGED <<testFiles, testsListErr, batch, in, out, next, submissions,
                   sub, k, files, proc, waiter, timer, exitErr, first, launches,
                   reports, rep>>
    /\ UNCHANGED <<contents, verbose>>

\* ----------------------------------------------------------- specification
Next ==
    \/ GetTestNames
    \/ WalkError
    \/ StageSubmission
    \/ StartReports
    \/ Compile
    \/ Cleanup
    \/ Launch
    \/ TimerFire
    \/ \E r \in Runs : ProcExit(r)
    \/ \E r \in Runs : ProcDie(r)
    \/ \E r \in Runs : WaitReturn(r)
    \/ SelectTimeout
    \/ SelectDone
    \/ WriteReport
    \/ Finish

Spec == Init /\ [][Next]_vars

TypeOK ==
    /\ pc \in {"getTestNames", "walk", "compile", "loop", "select", "report", "done", "aborted",
               "panic"}
    /\ next \in 1..(NumSubs + 1)
    /\ k \in 1..(MaxTests + 1)
    /\ Len(in) <= MaxTests
    /\ Len(submissions) <= NumSubs
    /\ timer \in {"unarmed", "armed", "fired"}
    /\ first \in {"none", "exit", "deadline"}
    /\ \A r \in Runs :
         /\ proc[r] \in {"none", "nostart", "running", "killed",
                         "terminated"}
         /\ waiter[r] \in {"none", "wait", "send", "done"}

\* ------------------------------------- specification of getTestNames alone
\* the paths under which the test-cases directory is given: t, s.t and ../t
TestRoots == { <<"t">>, <<"s", ".", "t">>, <<".", ".", "/", "t">> }

\* file names of a test-cases directory: inputs, outputs, a name without "."
\* and a name with two
TestNames == { <<"a", ".">> \o InExt, <<"a", ".">> \o OutExt,
               <<"b", ".">> \o InExt, <<"b", ".">> \o OutExt,
               <<"c">>, <<"a", ".", "b", ".">> \o InExt }

NamedTestDirs ==
    { { root \o <<"/">> \o n : n \in S } : root \in TestRoots, S \in SUBSET TestNames }

\* run has called getTestNames on one of these directories
NamesInit ==
    /\ pc = "getTestNames"
    /\ testsListErr = FALSE
    /\ testFiles \in NamedTestDirs
    /\ batch = <<>>
    /\ in = <<>>
    /\ out = <<>>
    /\ next = 1
    /\ submissions = <<>>
    /\ sub = NoSub
    /\ k = 1
    /\ files = {}
    /\ proc = NoProcs
    /\ waiter = NoWaiters
    /\ timer = "unarmed"
    /\ exitErr = FALSE
    /\ first = "none"
    /\ launches = NoLaunches
    /\ reports = {}
    /\ rep = 1
    /\ contents = <<>>
    /\ verbose = FALSE

NamesNext == GetTestNames

SpecNames == NamesInit /\ [][NamesNext]_vars

\* -------------------------------------- specification of writeReport alone
\* texts: one line, one line that ends with CR LF, another line, and more
\* lines than VerboseNumLines
LineX == <<"x", "\n">>
LineXCR == <<"x", "\r", "\n">>
LineY == <<"y", "\n">>

RECURSIVE Lines(_)
Lines(n) == IF n = 0 THEN <<>> ELSE LineX \o Lines(n - 1)

LongText == Lines(VerboseNumLines + 10)

\* the Results runExec can return for one test case: the output of an OK or
\* TIMEOUT run and the error log of an ERROR run vary
RunResultValues ==
    { [Status |-> STATUS_OK, out |-> o, err |-> <<>>] :
        o \in {LineX, LineY, LongText} }
      \cup { [Status |-> STATUS_TIMEOUT, out |-> o, err |-> <<>>] :
               o \in {LineX, LineY} }
      \cup { [Status |-> STATUS_ERR, out |-> <<>>, err |-> LongText] }

\* the Results runCompile can return
CompileResultValues ==
    { [Status |-> STATUS_OK, out |-> o, err |-> <<>>] : o \in {<<>>, LongText} }
      \cup { [Status |-> STATUS_ERR, out |-> <<>>, err |-> e] :
               e \in {LineY, LongText} }

\* the texts an expected-output file can hold
ExpectedValues == {LineX, LineXCR, LongText}

\* the submission file of the batch
ReportedPath == <<"a", "/", "k", "_", "1", "_", "0", "_", "C", "-", "2">> \o JavaExt

\* the submissions runSubmission can return for n test inputs: no Result after
\* a compile error, one Result per input otherwise
SubmissionValues(n) ==
    { [Name |-> MakeTestDirDir(ReportedPath), CompileResult |-> c,
       RunResults |-> rs] :
        c \in {v \in CompileResultValues : v.Status = STATUS_OK},
        rs \in [1..n -> RunResultValues] }
      \cup { [Name |-> MakeTestDirDir(ReportedPath), CompileResult |-> c,
              RunResults |-> <<>>] :
               c \in {v \in CompileResultValues : v.Status = STATUS_ERR} }

\* run has walked a batch of one submission and goes on to write its report
ReportInit ==
    /\ pc = "report"
    /\ testsListErr = FALSE
    /\ \E n \in 0..MaxTests :
         /\ testFiles = TestDir(n, n, FALSE)
         /\ in = SortStrings(SelectPaths(WalkOrder(testFiles), TRUE))
         /\ out = SortStrings(SelectPaths(WalkOrder(testFiles), FALSE))
         /\ submissions \in { <<s>> : s \in SubmissionValues(n) }
    /\ batch = <<ReportedPath>>
    /\ next = 2
    /\ sub = NoSub
    /\ k = 1
    /\ files = {}
    /\ proc = NoProcs
    /\ waiter = NoWaiters
    /\ timer = "unarmed"
    /\ exitErr = FALSE
    /\ first = "none"
    /\ launches = NoLaunches
    /\ reports = {}
    /\ rep = 1
    /\ contents \in [{out[i] : i \in 1..Len(out)} -> ExpectedValues]
    /\ verbose \in BOOLEAN

ReportNext ==
    \/ WriteReport
    \/ Finish

SpecReport == ReportInit /\ [][ReportNext]_vars

\* ------------------------------------------------------------------ claims
\* the main goroutine is in runSubmission, after the staging
InSubmission == pc \in {"compile", "loop", "select"}

\* the select of runExec returns and the Result of run k is recorded
Recorded == pc = "select" /\ pc' = "loop"

\* C1: every submission that runSubmission returned has as many RunResults
\* as there are test inputs when its compile status is OK, and none when its
\* compile status is ERROR.
C1_RunResultsLength ==
    \A j \in 1..Len(submissions) :
        /\ submissions[j].CompileResult.Status = STATUS_OK
              => Len(submissions[j].RunResults) = Len(in)
        /\ submissions[j].CompileResult.Status = STATUS_ERR
              => Len(submissions[j].RunResults) = 0

\* two submissions were returned for two test inputs, one that compiled and
\* one that did not
C1_Witness ==
    /\ Len(in) >= 2
    /\ \E j \in 1..Len(submissions) :
         submissions[j].CompileResult.Status = STATUS_OK
    /\ \E j \in 1..Len(submissions) :
         submissions[j].CompileResult.Status = STATUS_ERR

\* C2: no goroutine stays blocked forever: while the program runs, a
\* goroutine that is blocked on the send on done still has the select of its
\* runExec to receive from it.
C2_NoBlockedWaiter ==
    pc # "panic" =>
        \A r \in Runs : waiter[r] = "send" => (pc = "select" /\ r = k)

\* C3: when the deadline elapsed before the process exited, the Result that
\* is recorded has status TIMEOUT and the process is not live any more.
C3_TimeoutTerminates ==
    [][(Recorded /\ first = "deadline")
          => /\ sub'.RunResults[k].Status = STATUS_TIMEOUT
             /\ proc'[k] \notin Live]_vars

\* C4: when the process exited before the deadline elapsed, the Result that
\* is recorded has status OK after a clean exit and ERROR otherwise, under
\* every interleaving.
C4_ExitBeforeDeadline ==
    [][(Recorded /\ first = "exit")
          => sub'.RunResults[k].Status =
                 IF exitErr THEN STATUS_ERR ELSE STATUS_OK]_vars

\* C5: the processes of one submission are launched in input order and at
\* most one of them is live at any moment.
C5_OneLiveProcess ==
    /\ Cardinality({r \in Runs : proc[r] \in Live}) <= 1
    /\ \A r \in Runs : proc[r] # "none" => r <= k

\* C6: whatever the statuses of the earlier test cases, every test case up
\* to the one of the loop was launched exactly once, no other was launched,
\* the loop goes on with the test case after the last Result, and each Result
\* is at the position of its input.
C6_EveryCaseOnce ==
    /\ pc \in {"loop", "select"} =>
         /\ \A r \in Runs :
              launches[r] = IF r < k \/ (r = k /\ pc = "select") THEN 1 ELSE 0
         /\ Len(sub.RunResults) = k - 1
         /\ \A i \in 1..Len(sub.RunResults) : sub.RunResults[i].out = in[i]
    /\ \A j \in 1..Len(submissions) :
         \A i \in 1..Len(submissions[j].RunResults) :
              submissions[j].RunResults[i].out = in[i]

\* a returned submission whose first test case timed out, whose second test
\* case failed and whose last test case has a Result
C6_Witness ==
    \E j \in 1..Len(submissions) :
        /\ Len(submissions[j].RunResults) = Len(in)
        /\ Len(in) >= 2
        /\ submissions[j].RunResults[1].Status = STATUS_TIMEOUT
        /\ submissions[j].RunResults[2].Status = STATUS_ERR

\* runSubmission returned the error of os.RemoveAll itself
RemoveFailed == pc = "aborted" /\ sub # NoSub /\ ~LoopHasNext(k, in)

\* C7: on every path by which runSubmission returns, no workspace exists
\* (leaving aside the path on which the removal itself failed).
C7_WorkspaceDeleted ==
    (pc \in {"walk", "report", "done", "aborted"} /\ ~RemoveFailed)
        => files = {}

\* C8: a submission whose compile status is ERROR has no runtime process
\* launched (processes are launched only for a submission that compiled), has
\* no workspace left when runSubmission has returned it, and has no
\* RunResults.
C8_CompileErrorSkipsRun ==
    /\ (pc = "select" \/ \E r \in Runs : launches[r] > 0 \/ proc[r] # "none")
          => sub.CompileResult.Status = STATUS_OK
    /\ \A j \in 1..Len(submissions) :
         submissions[j].CompileResult.Status = STATUS_ERR
            => /\ submissions[j].RunResults = <<>>
               /\ \A f \in files : f.owner # j

\* a submission was returned with compile status ERROR although there are
\* test inputs
C8_Witness ==
    /\ Len(in) >= 1
    /\ \E j \in 1..Len(submissions) :
         submissions[j].CompileResult.Status = STATUS_ERR

\* C9: while a submission is staged, compiled or run, every staged file that
\* exists is its own: no workspace of another submission exists.
C9_WorkspacesIsolated ==
    InSubmission => \A f \in files : f.owner = next

\* the second submission of a batch runs a test case, staged under the class
\* name the first submission derived
C9_Witness ==
    /\ pc = "select"
    /\ next = 2
    /\ MakeTestDirClass(batch[1]) = MakeTestDirClass(batch[2])
    /\ \E f \in files : f.file = MakeTestDirClass(batch[1])

\* C10: after a listing error on the test-cases directory or on the
\* submissions directory, or with a test file without extension delimiter, no
\* report file is written.
C10_ListingErrorsFatal ==
    (testsListErr \/ (\E p \in testFiles : ~HasExt(p)) \/ pc = "aborted")
        => reports = {}

\* writeReport faulted on outs[i]
Faulted == \E f \in reports : f.stage = "faulted"

\* C11, as stated: when the sorted input list and the sorted expected-output
\* list have different lengths, the out-of-range access occurs later in the
\* run, so that such a run never returns normally
C11_UnequalLengthsFault == pc = "done" => Len(in) = Len(out)

\* C11, amended: the batch is not rejected at pairing time, and the
\* out-of-range access occurs exactly when the expected-output list is the
\* shorter one and a submission compiled: it occurs in the report of the first
\* such submission, at the read of outs[i], and a run with the shorter
\* expected-output list returns normally only when no submission compiled
C11_ShortOutputListFaults ==
    /\ Faulted => (pc = "panic" /\ Len(out) < Len(in)
                     /\ ~CompileFailed(submissions[rep].CompileResult))
    /\ (pc \in {"report", "done"} /\ Len(out) < Len(in))
         => \A j \in 1..(rep - 1) : CompileFailed(submissions[j].CompileResult)
    /\ (pc = "done" /\ Len(out) # Len(in))
         => \/ Len(out) > Len(in)
            \/ \A j \in 1..Len(submissions) :
                  CompileFailed(submissions[j].CompileResult)

\* a run with fewer expected outputs than inputs reached the reports and
\* faulted on the report of a submission that compiled
C11_Witness ==
    /\ pc = "panic"
    /\ Len(out) < Len(in)
    /\ \E f \in reports : f.stage = "faulted" /\ Len(f.sections) = Len(out)

\* C12: a batch that completed leaves exactly one report file per processed
\* submission, each named after the identity of its submission, so that no
\* two submissions wrote the same report file
C12_OneReportPerSubmission ==
    pc = "done" =>
        /\ Cardinality(reports) = Len(submissions)
        /\ \A j \in 1..Len(submissions) :
              \E f \in reports : f.name = submissions[j].Name \o TxtExt

\* the expected output the section of test case i is compared with
Expected(i) == StripCR(FileText(contents, out[i]))

StrictlySorted(list) ==
    \A i, j \in 1..Len(list) : i < j => StrLess(list[i], list[j])

\* C14: getTestNames returns both lists sorted ascending, the Result at
\* position i of RunResults is the output of the run on the i-th input, and
\* section i of a report names the i-th expected output, shows the status of
\* Result i and compares the i-th expected output with the output of Result i.
\* The lists are looked at where run uses them, the Results of sub after each
\* append and those of submissions once runSubmission has returned them
C14_SortedAndPairedByIndex ==
    /\ pc \in {"walk", "report", "done"}
         => /\ StrictlySorted(in) /\ StrictlySorted(out)
            /\ \A p \in testFiles :
                  \/ \E i \in 1..Len(in) : in[i] = p
                  \/ \E i \in 1..Len(out) : out[i] = p
            /\ Len(in) + Len(out) = Cardinality(testFiles)
    /\ pc = "loop"
         => \A i \in 1..Len(sub.RunResults) :
               sub.RunResults[i].out = FileText(contents, in[i])
    /\ pc \in {"walk", "report", "done"}
         => \A j \in 1..Len(submissions) :
               \A i \in 1..Len(submissions[j].RunResults) :
                   submissions[j].RunResults[i].out = FileText(contents, in[i])
    /\ \A f \in reports :
          \E j \in 1..Len(submissions) :
              /\ f.name = submissions[j].Name \o TxtExt
              /\ Len(f.sections) <= Len(submissions[j].RunResults)
              /\ \A i \in 1..Len(f.sections) :
                    /\ f.sections[i].case = out[i]
                    /\ f.sections[i].status = submissions[j].RunResults[i].Status
                    /\ f.sections[i].class = "diff"
                         => f.sections[i].logs[1].text =
                               LogBody(DiffPrettyText(Expected(i),
                                                      FileText(contents, in[i])),
                                       verbose)

\* the run over the test-cases directory whose walk order is not the sorted
\* order wrote a report with a section for each of the two test cases
C14_Witness ==
    /\ pc = "done"
    /\ testFiles = NestedTestDir
    /\ \E f \in reports : Len(f.sections) = 2 /\ f.sections[2].class = "diff"

\* a file name of the convention: three metadata tokens, a class-name token,
\* an optional resubmission suffix and the source extension
ConventionName(user, class, resub) ==
    user \o <<"_", "1", "_", "0", "_">> \o class \o resub \o JavaExt

\* C16: for a submission file named by the convention, makeTestDir derives as
\* class name the class-name token without the resubmission suffix, and the
\* header of the report shows the part of the identity before its first "_".
\* The staged files are looked at when makeTestDir has returned
C16_ClassNameAndHeader ==
    /\ pc = "compile" => \A f \in files :
          \E user \in {<<"j">>, <<"k">>}, resub \in {<<>>, <<"-", "2">>} :
              /\ Base(batch[f.owner]) = ConventionName(user, <<"C">>, resub)
              /\ f.file = <<"C">>
    /\ (pc \in {"report", "done"})
         => \A j \in 1..(rep - 1) :
               \E user \in {<<"j">>, <<"k">>}, resub \in {<<>>, <<"-", "2">>} :
                   /\ Base(batch[j]) = ConventionName(user, <<"C">>, resub)
                   /\ \E f \in reports :
                         /\ f.name = submissions[j].Name \o TxtExt
                         /\ f.header = user

\* the report of a resubmission, which was staged as C.java, is written
C16_Witness ==
    /\ pc = "done"
    /\ \E j \in 1..Len(batch) :
          /\ Base(batch[j]) = ConventionName(<<"k">>, <<"C">>, <<"-", "2">>)
          /\ MakeTestDirClass(batch[j]) = <<"C">>
    /\ \E f \in reports : f.header = <<"k">>

\* C17: when runCmd.Start failed, the select of runExec is left with a Result
\* of status ERROR appended for the test case, whichever of the deadline and
\* the report of the waiting goroutine comes first
C17_LaunchFailureIsError ==
    [][(pc = "select" /\ proc[k] = "nostart" /\ pc' # "select")
         => /\ pc' = "loop"
            /\ Len(sub'.RunResults) = k
            /\ sub'.RunResults[k].Status = STATUS_ERR]_vars

\* the goroutines of exec.Cmd that copy the output of the process of run r
\* into outBuff and errBuff can still write: the process was started, and
\* runCmd.Wait, which returns after they have finished, has not returned
Copying(r) ==
    /\ proc[r] \in {"running", "killed", "terminated"}
    /\ waiter[r] = "wait"

\* C19: runExec reads outBuff and errBuff into the Result only when the
\* copying of the output of the process is over, in both branches of the select
C19_NoReadDuringCopy == [][Recorded => ~Copying(k)]_vars

\* the extension of the file name of a path: what follows its last "."
Ext(path) ==
    LET parts == Split(Base(path), ".")
    IN IF Len(parts) < 2 THEN <<>> ELSE parts[Len(parts)]

InList(p, list) == \E i \in 1..Len(list) : list[i] = p

\* C18: getTestNames places a test file in the input list iff the extension
\* of its file name is "in", and in the output list otherwise, under every
\* path of the test-cases directory
C18_PartitionByExtension ==
    pc = "walk" =>
        \A p \in testFiles :
            /\ InList(p, in) <=> Ext(p) = InExt
            /\ InList(p, out) <=> Ext(p) # InExt

\* the submission whose report is written under SpecReport
Reported == submissions[1]

NumLines(text) ==
    Cardinality({i \in 1..Len(text) : text[i] = "\n"})
        + (IF text # <<>> /\ text[Len(text)] # "\n" THEN 1 ELSE 0)

\* written is a cut of raw followed by the truncation marker
Truncated(raw, written) ==
    /\ Len(written) >= 1
    /\ Len(written) - 1 < Len(raw)
    /\ SubSeq(written, 1, Len(written) - 1) = SubSeq(raw, 1, Len(written) - 1)
    /\ <<written[Len(written)]>> = TruncMarker

\* a log body is written as C15 states
LogAsStated(raw, written) ==
    IF verbose THEN written = raw
    ELSE IF NumLines(raw) > VerboseNumLines THEN Truncated(raw, written)
    ELSE written = raw

\* the text a log of a section shows, before it is cut
RawLog(i, kind) ==
    IF kind = "Error Log" THEN Reported.RunResults[i].err
    ELSE IF kind = "Out Log" THEN Reported.RunResults[i].out
    ELSE DiffPrettyText(Expected(i), Reported.RunResults[i].out)

\* C15: without the flag -v, every log of the report (compile out log,
\* compile error log, run error log, diff log, run out log) that has more
\* lines than the threshold is cut and followed by the truncation marker, and
\* every other log is written unchanged; with the flag every log is written
\* in full
C15_LogsTruncated ==
    \A f \in reports :
        /\ \A h \in 1..Len(f.compileLogs) :
              LogAsStated(IF f.compileLogs[h].kind = "Error Log"
                          THEN Reported.CompileResult.err
                          ELSE Reported.CompileResult.out,
                          f.compileLogs[h].text)
        /\ \A i \in 1..Len(f.sections) :
              \A h \in 1..Len(f.sections[i].logs) :
                  LogAsStated(RawLog(i, f.sections[i].logs[h].kind),
                              f.sections[i].logs[h].text)

\* the test cases whose output differs from the expected output
Differing == {i \in 1..Len(Reported.RunResults) :
                 Reported.RunResults[i].out # Expected(i)}

NoDiffSections(f) == {i \in 1..Len(f.sections) : f.sections[i].class = "No Diff!"}

\* C20, as stated: the mismatch count of a report is the number of test cases
\* whose output differs from the expected output, whatever their status, and
\* the count plus the number of no-diff sections is the number of test cases
C20_EveryResultDiffed ==
    \A f \in reports :
        f.stage = "full" =>
            /\ f.diffCnt = Cardinality(Differing)
            /\ f.diffCnt + Cardinality(NoDiffSections(f)) = Len(Reported.RunResults)

\* C20, amended: only the Results of status OK and TIMEOUT are diffed; the
\* mismatch count is the number of those whose output differs from the
\* expected output, an ERROR Result gets an error section and is not counted,
\* and the count plus the number of no-diff sections plus the number of ERROR
\* Results is the number of test cases
C20_NonErrorResultsDiffed ==
    \A f \in reports :
        f.stage = "full" =>
            /\ f.diffCnt = Cardinality({i \in Differing :
                              Reported.RunResults[i].Status # STATUS_ERR})
            /\ \A i \in 1..Len(f.sections) :
                  /\ f.sections[i].class = "error"
                       <=> Reported.RunResults[i].Status = STATUS_ERR
                  /\ f.sections[i].class = "diff"
                       <=> (i \in Differing
                            /\ Reported.RunResults[i].Status # STATUS_ERR)
            /\ f.diffCnt + Cardinality(NoDiffSections(f)) + f.numErr
                 = Len(Reported.RunResults)

\* a full report with an ERROR Result, which differs from the expected output
\* and is not counted, and a TIMEOUT Result that is counted
C20_Witness ==
    \E f \in reports :
        /\ f.stage = "full"
        /\ f.diffCnt = 1
        /\ \E i \in 1..Len(f.sections) :
              f.sections[i].class = "error" /\ i \in Differing
        /\ \E i \in 1..Len(f.sections) :
              f.sections[i].class = "diff" /\ f.sections[i].status = STATUS_TIMEOUT

====
